---- MODULE Spec2Model ----
(***************************************************************************)
(* Model of the two fact-gathering modules of the repository:              *)
(*   cloud/amazon/ec2_group_facts.py  (list_group and its helpers)         *)
(*   cloud/amazon/iam_user_facts.py   (main, list_iam_users)               *)
(* Provider (boto / boto3) calls are the environment: every call either    *)
(* raises a provider error or returns a response.                          *)
(***************************************************************************)
EXTENDS Integers, Sequences, FiniteSets, TLC

VARIABLES
    pc,                 \* position of the running module
    calls,              \* provider calls issued so far, in order
    result,             \* what the module run has emitted (exit_json / fail_json / traceback)
    raised,             \* the provider error a call raised (None while none has)
    \* ---- ec2_group_facts.list_group
    lookup,             \* module.params['lookup']
    inv,                \* the provider's resource inventory
    all_groups,         \* response of get_all_security_groups
    idx,                \* position of the `for group in all_groups` loop
    group_info,         \* the record get_group_info is building
    group_dict_array,   \* records appended so far
    \* ---- ec2_group_facts.get_group_rules
    PermissionList,     \* argument of get_group_rules
    rules,              \* its return value
    \* ---- ec2_group_facts.get_rds_instances / get_associated_loadbalancers
    group,              \* the group argument
    all_rds,            \* response of get_all_dbinstances
    all_elbs,           \* response of get_all_load_balancers
    rds_instances,      \* return value of get_rds_instances
    associated_loadbalancers, \* return value of get_associated_loadbalancers
    \* ---- iam_user_facts
    args,               \* the task's arguments as written by the user
    params,             \* module.params after AnsibleModule applied the defaults
    got,                \* response of get_user (None when not called / failed)
    listing,            \* response of list_users
    iam_users           \* the local list of list_iam_users

vars == <<pc, calls, result, raised, lookup, inv, all_groups, idx, group_info,
          group_dict_array, PermissionList, rules, group, all_rds, all_elbs,
          rds_instances, associated_loadbalancers, args, params, got, listing,
          iam_users>>

ec2Vars   == <<lookup, inv, all_groups, idx, group_info, group_dict_array>>
rulesVars == <<PermissionList, rules>>
assocVars == <<group, all_rds, all_elbs, rds_instances, associated_loadbalancers>>
iamVars   == <<args, params, got, listing, iam_users>>

\* Python's None
None == "None"

\* ---------------------------------------------------------------- bounds
MaxGroups == 2      \* groups returned by one get_all_security_groups call
MaxRules  == 2      \* permission entries of one PermissionList
MaxGrants == 2      \* grants of one permission entry
MaxDbs    == 2      \* database instances / load balancers of one inventory
MaxMemberships == 2 \* security-group memberships of one instance / balancer
MaxUsers  == 2      \* users of one list_users response

\* bounded sequences over S, with and without repetition
SeqsUpTo(S, n) == UNION {[1..k -> S] : k \in 0..n}
IsInjective(s) == \A i, j \in DOMAIN s : s[i] = s[j] => i = j
DistinctSeqsUpTo(S, n) == {s \in SeqsUpTo(S, n) : IsInjective(s)}

\* ------------------------------------------------------- results of a run
NoResult == [kind |-> "none", msg |-> <<>>, payload |-> <<>>]
\* module.exit_json(**kw)
exit_json(payload) == [kind |-> "exit_json", msg |-> <<>>, payload |-> payload]
\* module.fail_json(msg=...)
fail_json(msg) == [kind |-> "fail_json", msg |-> msg, payload |-> <<>>]
\* an exception no handler catches: the interpreter ends the run with a traceback
traceback(e) == [kind |-> "traceback", msg |-> <<>>, payload |-> e]

\* "%s: %s" % (a, b): the text is kept as its fragments
Format(a, b) == <<a, ": ", b>>
\* a text that is one value
Text(a) == <<a>>
Carries(msg, s) == \E i \in DOMAIN msg : msg[i] = s

\* -------------------------------------------------------- provider errors
\* boto.exception.BotoServerError: error_code and message (error_message reads message)
BotoErrors ==
    { [error_code |-> "AuthFailure", message |-> "not authorized"],
      [error_code |-> "RequestLimitExceeded", message |-> "rate exceeded"] }
error_message(e) == e.message
\* no call has raised
NoError == [error_code |-> None, message |-> None]

\* ------------------------------------------------------ get_group_rules
\* the inner loop with `if` in place of `elif`: both values of a grant
RECURSIVE GrantStrings_Both(_)
GrantStrings_Both(grants) ==
    IF grants = <<>> THEN <<>>
    ELSE LET grant == Head(grants)
             rest  == GrantStrings_Both(Tail(grants))
             gid   == IF grant.group_id # None THEN <<grant.group_id>> ELSE <<>>
             cidr  == IF grant.cidr_ip # None THEN <<grant.cidr_ip>> ELSE <<>>
         IN  gid \o cidr \o rest

\* the inner loop over rule.grants
RECURSIVE GrantStrings(_)
GrantStrings(grants) ==
    IF grants = <<>> THEN <<>>
    ELSE LET grant == Head(grants)
             rest  == GrantStrings(Tail(grants))
         IN  IF grant.group_id # None THEN <<grant.group_id>> \o rest
             ELSE IF grant.cidr_ip # None THEN <<grant.cidr_ip>> \o rest
             ELSE rest

\* the permission record of one rule
Permission(rule) ==
    [ip_protocol |-> rule.ip_protocol,
     from_port   |-> rule.from_port,
     to_port     |-> rule.to_port,
     grants      |-> GrantStrings(rule.grants)]

\* the outer loop with rules.insert(0, permission) in place of append
RECURSIVE get_group_rules_Prepend(_)
get_group_rules_Prepend(pl) ==
    IF pl = <<>> THEN <<>>
    ELSE get_group_rules_Prepend(Tail(pl)) \o <<Permission(Head(pl))>>

\* the outer loop over PermissionList
RECURSIVE get_group_rules(_)
get_group_rules(pl) ==
    IF pl = <<>> THEN <<>>
    ELSE <<Permission(Head(pl))>> \o get_group_rules(Tail(pl))

\* ------------------------------------------------ association helpers
\* get_associated_instances: the ids of group.instances()
get_associated_instances(associated_instances) ==
    [i \in DOMAIN associated_instances |-> associated_instances[i].id]

\* get_network_interfaces: the ids of the interfaces the provider returned
get_network_interfaces(all_enis) ==
    [i \in DOMAIN all_enis |-> all_enis[i].id]

InSeq(x, s) == \E i \in DOMAIN s : s[i] = x

\* get_associated_loadbalancers: `if group.id in elb.security_groups`
RECURSIVE get_associated_loadbalancers(_, _)
get_associated_loadbalancers(elbs, g) ==
    IF elbs = <<>> THEN <<>>
    ELSE LET elb  == Head(elbs)
             rest == get_associated_loadbalancers(Tail(elbs), g)
         IN  IF InSeq(g.id, elb.security_groups) THEN <<elb.name>> \o rest
             ELSE rest

\* get_rds_instances, inner loop: one append per membership that matches
RECURSIVE MembershipAppends(_, _, _)
MembershipAppends(memberships, rdsId, g) ==
    IF memberships = <<>> THEN <<>>
    ELSE LET membership == Head(memberships)
             rest == MembershipAppends(Tail(memberships), rdsId, g)
         IN  IF g.id = membership.vpc_group THEN <<rdsId>> \o rest
             ELSE rest

RECURSIVE get_rds_instances(_, _)
get_rds_instances(dbs, g) ==
    IF dbs = <<>> THEN <<>>
    ELSE MembershipAppends(Head(dbs).vpc_security_groups, Head(dbs).id, g)
         \o get_rds_instances(Tail(dbs), g)

\* ------------------------------------------------- security groups
Rule(proto, from, to, grants) ==
    [ip_protocol |-> proto, from_port |-> from, to_port |-> to, grants |-> grants]
Grant(gid, cidr) == [group_id |-> gid, cidr_ip |-> cidr]

GroupIds == {"sg-1", "sg-2", "sg-3"}

\* the security groups of the account
SecurityGroup(id) ==
    [id |-> id,
     name |-> IF id = "sg-1" THEN "web" ELSE IF id = "sg-2" THEN "db" ELSE "default",
     description |-> "group " \o id,
     vpc_id |-> IF id = "sg-3" THEN None ELSE "vpc-1",
     rules |-> IF id = "sg-1"
               THEN <<Rule("tcp", "80", "80", <<Grant(None, "0.0.0.0/0")>>)>>
               ELSE IF id = "sg-2"
               THEN <<Rule("tcp", "5432", "5432", <<Grant("sg-1", None), Grant(None, None)>>)>>
               ELSE <<>>,
     rules_egress |-> IF id = "sg-3" THEN <<>>
                      ELSE <<Rule("-1", None, None, <<Grant(None, "0.0.0.0/0")>>)>>]

\* what get_all_security_groups may return: distinct groups, any order
GroupLists ==
    {[i \in DOMAIN s |-> SecurityGroup(s[i])] : s \in DistinctSeqsUpTo(GroupIds, MaxGroups)}

Membership(gid) == [vpc_group |-> gid, status |-> "active"]

\* two inventories of the account's other resources
Inventories ==
    { [instances |-> [g \in GroupIds |->
                        IF g = "sg-1" THEN <<[id |-> "i-1"], [id |-> "i-2"]>>
                        ELSE <<>>],
       elbs |-> << [name |-> "lb-1", security_groups |-> <<"sg-1">>],
                   [name |-> "lb-2", security_groups |-> <<"sg-2", "sg-1">>] >>,
       enis |-> << [id |-> "eni-1", groups |-> <<"sg-1">>],
                   [id |-> "eni-2", groups |-> <<"sg-2">>] >>,
       rds  |-> << [id |-> "db-1", vpc_security_groups |-> <<Membership("sg-2")>>],
                   [id |-> "db-2", vpc_security_groups |->
                                      <<Membership("sg-3"), Membership("sg-2")>>] >> ],
      [instances |-> [g \in GroupIds |->
                        IF g = "sg-2" THEN <<[id |-> "i-3"]>> ELSE <<>>],
       elbs |-> << [name |-> "lb-3", security_groups |-> <<"sg-3">>] >>,
       enis |-> << [id |-> "eni-3", groups |-> <<"sg-3", "sg-1">>] >>,
       rds  |-> << [id |-> "db-3", vpc_security_groups |-> <<Membership("sg-1")>>] >> ] }

\* get_all_network_interfaces(filters={'group-id': group.id}): filtered by the provider
RECURSIVE FilterByGroup(_, _)
FilterByGroup(enis, gid) ==
    IF enis = <<>> THEN <<>>
    ELSE IF InSeq(gid, Head(enis).groups)
         THEN <<Head(enis)>> \o FilterByGroup(Tail(enis), gid)
         ELSE FilterByGroup(Tail(enis), gid)

\* ----------------------------------------------------- get_group_info
Kinds == {"ec2", "elb", "eni", "rds"}
\* the values a lookup list may hold: the four kinds, 'all', and an unknown tag
LookupTags == Kinds \cup {"all", "s3"}

\* a lookup that is triggered by any tag at all
Requested_AnyTag(kind, lk) == \E x \in lk : TRUE
\* 'all' left out of the rds condition
Requested_NoAllForRds(kind, lk) == kind \in lk \/ (kind # "rds" /\ "all" \in lk)

\* any(x in lookup for x in [kind, 'all'])
Requested(kind, lk) == \E x \in {kind, "all"} : x \in lk

Call(op, gid) == [op |-> op, group |-> gid]

\* the head of get_group_info: the plain fields, the two rule lists, empty resources
StartInfo(g) ==
    [id |-> g.id, name |-> g.name, description |-> g.description, vpc_id |-> g.vpc_id,
     rules |-> get_group_rules(g.rules),
     rules_egress |-> get_group_rules(g.rules_egress),
     resources |-> <<>>]

\* group_info['resources'][kind] = value
SetResource(info, kind, value) ==
    [info EXCEPT !.resources =
        [k \in (DOMAIN info.resources) \cup {kind} |->
            IF k = kind THEN value ELSE info.resources[k]]]

NoInfo == [id |-> None]
CurGroup == all_groups[idx]

\* -------------------------------------------------------- list_group
ec2Idle   == /\ lookup = {} /\ inv = None /\ all_groups = <<>> /\ idx = 0
             /\ group_info = NoInfo /\ group_dict_array = <<>>
rulesIdle == PermissionList = <<>> /\ rules = None
assocIdle == /\ group = NoInfo /\ all_rds = <<>> /\ all_elbs = <<>>
             /\ rds_instances = None /\ associated_loadbalancers = None
iamIdle   == /\ args = None /\ params = None /\ got = None /\ listing = None
             /\ iam_users = <<>>

Init ==
    /\ pc = "list_group"
    /\ calls = <<>>
    /\ result = NoResult
    /\ raised = NoError
    /\ lookup \in SUBSET LookupTags
    /\ inv \in Inventories
    /\ all_groups = <<>>
    /\ idx = 0
    /\ group_info = NoInfo
    /\ group_dict_array = <<>>
    /\ rulesIdle /\ assocIdle /\ iamIdle

\* get_all_security_groups raised BotoServerError: fail_json(msg=e.message)
ListGroupFails ==
    /\ pc = "list_group"
    /\ \E e \in BotoErrors :
         /\ raised' = e
         /\ result' = fail_json(Text(e.message))
    /\ calls' = Append(calls, Call("get_all_security_groups", None))
    /\ pc' = "done"
    /\ UNCHANGED <<ec2Vars, rulesVars, assocVars, iamVars>>

\* get_all_security_groups returned; the loop starts, or exit_json([]) right away
ListGroupReturns ==
    /\ pc = "list_group"
    /\ calls' = Append(calls, Call("get_all_security_groups", None))
    /\ \E gl \in GroupLists :
         /\ all_groups' = gl
         /\ IF gl = <<>>
            THEN /\ result' = exit_json([groups |-> <<>>])
                 /\ pc' = "done"
                 /\ idx' = 0
                 /\ group_info' = NoInfo
            ELSE /\ result' = result
                 /\ pc' = "ec2"
                 /\ idx' = 1
                 /\ group_info' = StartInfo(gl[1])
    /\ UNCHANGED <<raised, lookup, inv, group_dict_array, rulesVars, assocVars, iamVars>>

\* lines 252-255
Ec2Step ==
    /\ pc = "ec2"
    /\ \/ /\ Requested("ec2", lookup)
          /\ calls' = Append(calls, Call("instances", CurGroup.id))
          /\ group_info' = SetResource(group_info, "ec2",
                              get_associated_instances(inv.instances[CurGroup.id]))
          /\ pc' = "elb"
          /\ UNCHANGED <<result, raised>>
       \/ /\ Requested("ec2", lookup)
          \* group.instances() raised: get_associated_instances has no handler
          /\ calls' = Append(calls, Call("instances", CurGroup.id))
          /\ \E e \in BotoErrors : raised' = e /\ result' = traceback(e)
          /\ pc' = "done"
          /\ group_info' = group_info
       \/ /\ ~Requested("ec2", lookup)
          /\ group_info' = SetResource(group_info, "ec2", <<>>)
          /\ pc' = "elb"
          /\ UNCHANGED <<calls, result, raised>>
    /\ UNCHANGED <<lookup, inv, all_groups, idx, group_dict_array,
                   rulesVars, assocVars, iamVars>>

\* lines 256-259
ElbStep ==
    /\ pc = "elb"
    /\ \/ /\ Requested("elb", lookup)
          /\ calls' = Append(calls, Call("get_all_load_balancers", CurGroup.id))
          /\ group_info' = SetResource(group_info, "elb",
                              get_associated_loadbalancers(inv.elbs, CurGroup))
          /\ pc' = "eni"
          /\ UNCHANGED <<result, raised>>
       \/ /\ Requested("elb", lookup)
          /\ calls' = Append(calls, Call("get_all_load_balancers", CurGroup.id))
          /\ \E e \in BotoErrors :
               /\ raised' = e
               /\ result' = fail_json(Format(e.error_code, error_message(e)))
          /\ pc' = "done"
          /\ group_info' = group_info
       \/ /\ ~Requested("elb", lookup)
          /\ group_info' = SetResource(group_info, "elb", <<>>)
          /\ pc' = "eni"
          /\ UNCHANGED <<calls, result, raised>>
    /\ UNCHANGED <<lookup, inv, all_groups, idx, group_dict_array,
                   rulesVars, assocVars, iamVars>>

\* lines 260-263
EniStep ==
    /\ pc = "eni"
    /\ \/ /\ Requested("eni", lookup)
          /\ calls' = Append(calls, Call("get_all_network_interfaces", CurGroup.id))
          /\ group_info' = SetResource(group_info, "eni",
                              get_network_interfaces(FilterByGroup(inv.enis, CurGroup.id)))
          /\ pc' = "rds"
          /\ UNCHANGED <<result, raised>>
       \/ /\ Requested("eni", lookup)
          /\ calls' = Append(calls, Call("get_all_network_interfaces", CurGroup.id))
          /\ \E e \in BotoErrors :
               /\ raised' = e
               /\ result' = fail_json(Format(e.error_code, error_message(e)))
          /\ pc' = "done"
          /\ group_info' = group_info
       \/ /\ ~Requested("eni", lookup)
          /\ group_info' = SetResource(group_info, "eni", <<>>)
          /\ pc' = "rds"
          /\ UNCHANGED <<calls, result, raised>>
    /\ UNCHANGED <<lookup, inv, all_groups, idx, group_dict_array,
                   rulesVars, assocVars, iamVars>>

\* get_group_info returned: append its record, then the next group or exit_json
Appended(info) ==
    /\ group_dict_array' = Append(group_dict_array, info)
    /\ IF idx = Len(all_groups)
       THEN /\ result' = exit_json([groups |-> Append(group_dict_array, info)])
            /\ pc' = "done"
            /\ idx' = idx
            /\ group_info' = info
       ELSE /\ result' = result
            /\ pc' = "ec2"
            /\ idx' = idx + 1
            /\ group_info' = StartInfo(all_groups[idx + 1])

\* lines 264-269 and the loop of list_group, lines 283-286
RdsStep ==
    /\ pc = "rds"
    /\ \/ /\ Requested("rds", lookup)
          /\ calls' = Append(calls, Call("get_all_dbinstances", CurGroup.id))
          /\ raised' = raised
          /\ Appended(SetResource(group_info, "rds",
                          get_rds_instances(inv.rds, CurGroup)))
       \/ /\ Requested("rds", lookup)
          /\ calls' = Append(calls, Call("get_all_dbinstances", CurGroup.id))
          /\ \E e \in BotoErrors :
               /\ raised' = e
               /\ result' = fail_json(Format(e.error_code, error_message(e)))
          /\ pc' = "done"
          /\ UNCHANGED <<group_info, idx, group_dict_array>>
       \/ /\ ~Requested("rds", lookup)
          /\ UNCHANGED <<calls, raised>>
          /\ Appended(SetResource(group_info, "rds", <<>>))
    /\ UNCHANGED <<lookup, inv, all_groups, rulesVars, assocVars, iamVars>>

Next == ListGroupFails \/ ListGroupReturns \/ Ec2Step \/ ElbStep \/ EniStep \/ RdsStep

Spec == Init /\ [][Next]_vars

\* ------------------------------------------------ claims on list_group
\* the provider call each kind's lookup issues
OpOf(kind) ==
    CASE kind = "ec2" -> "instances"
      [] kind = "elb" -> "get_all_load_balancers"
      [] kind = "eni" -> "get_all_network_interfaces"
      [] kind = "rds" -> "get_all_dbinstances"

LastCall == calls[Len(calls)]
TimesIssued(c) == Cardinality({i \in DOMAIN calls : calls[i] = c})
IsPrefix(s, t) == Len(s) <= Len(t) /\ \A i \in DOMAIN s : s[i] = t[i]

\* C1: a failed call ends the run with one structured failure and no groups
\* list; a run without a failed call emits exactly one groups list with one
\* record per listed group, in the provider's order.
C1_AllOrNothing ==
    /\ (raised # NoError => pc = "done" /\ result.kind = "fail_json")
    /\ (result.kind = "exit_json" =>
          /\ raised = NoError
          /\ Len(result.payload.groups) = Len(all_groups)
          /\ \A i \in DOMAIN all_groups :
               result.payload.groups[i].id = all_groups[i].id)
    /\ (pc = "done" /\ raised = NoError => result.kind = "exit_json")

\* C2: every resources mapping get_group_info returned has exactly the keys
\* ec2, elb, eni, rds; a kind that is not in the lookup list (and 'all' is not
\* either) maps to the empty sequence and its inventory call is never issued.
C2_FourKeysAndUnrequestedEmpty ==
    /\ \A i \in DOMAIN group_dict_array :
         /\ DOMAIN group_dict_array[i].resources = Kinds
         /\ \A k \in Kinds :
              (k \notin lookup /\ "all" \notin lookup)
                 => group_dict_array[i].resources[k] = <<>>
    /\ \A k \in Kinds :
         (k \notin lookup /\ "all" \notin lookup)
            => \A j \in DOMAIN calls : calls[j].op # OpOf(k)
    /\ (result.kind = "exit_json" => result.payload.groups = group_dict_array)

C2_Witness ==
    /\ pc = "done" /\ result.kind = "exit_json"
    /\ lookup = {"eni", "s3"}
    /\ Len(group_dict_array) = 2
    /\ group_dict_array[2].resources["eni"] # <<>>
    /\ group_dict_array[2].resources["rds"] = <<>>

\* C3: a provider error raised by a requested kind's inventory call ends the
\* run in a structured failure that carries the provider's error code and
\* message, and the failed call is issued once only.
C3_KindErrorIsStructuredFailure ==
    (raised # NoError /\ calls # <<>> /\ LastCall.op \in {OpOf(k) : k \in Kinds}) =>
        /\ pc = "done"
        /\ result.kind = "fail_json"
        /\ Carries(result.msg, raised.error_code)
        /\ Carries(result.msg, raised.message)
        /\ TimesIssued(LastCall) = 1

\* the resources of group g when every kind is looked up
Associated(k, g, inventory) ==
    CASE k = "ec2" -> get_associated_instances(inventory.instances[g.id])
      [] k = "elb" -> get_associated_loadbalancers(inventory.elbs, g)
      [] k = "eni" -> get_network_interfaces(FilterByGroup(inventory.enis, g.id))
      [] k = "rds" -> get_rds_instances(inventory.rds, g)

\* the calls of a whole run that looks up every kind of every group
RECURSIVE FullCallsOf(_)
FullCallsOf(gl) ==
    IF gl = <<>> THEN <<>>
    ELSE << Call("instances", Head(gl).id),
            Call("get_all_load_balancers", Head(gl).id),
            Call("get_all_network_interfaces", Head(gl).id),
            Call("get_all_dbinstances", Head(gl).id) >> \o FullCallsOf(Tail(gl))
FullCalls(gl) == <<Call("get_all_security_groups", None)>> \o FullCallsOf(gl)

\* C4: a lookup list holding 'all' (alone or with other tags) and a lookup
\* list holding the four kinds resolve every group to the same resources,
\* those of all four inventories, through the same sequence of calls.
C4_AllIsTheFourKinds ==
    ("all" \in lookup \/ Kinds \subseteq lookup) =>
        /\ IsPrefix(calls, FullCalls(all_groups))
        /\ \A i \in DOMAIN group_dict_array :
             group_dict_array[i].resources =
                 [k \in Kinds |-> Associated(k, all_groups[i], inv)]
        /\ (result.kind = "exit_json" => calls = FullCalls(all_groups))

C4_Witness ==
    /\ pc = "done" /\ result.kind = "exit_json"
    /\ lookup = {"all", "s3"}
    /\ Len(group_dict_array) = 2
    /\ \E i \in 1..2 : group_dict_array[i].resources["rds"] # <<>>
    /\ \E i \in 1..2 : group_dict_array[i].resources["ec2"] # <<>>

\* C7: a provider error of the initial get_all_security_groups call is fatal,
\* the call is not retried, and the failure carries the provider's error code
\* and the provider's message.
C7_ListErrorCarriesCodeAndMessage ==
    (raised # NoError /\ calls # <<>> /\ LastCall.op = "get_all_security_groups") =>
        /\ pc = "done"
        /\ result.kind = "fail_json"
        /\ calls = <<Call("get_all_security_groups", None)>>
        /\ Carries(result.msg, raised.error_code)
        /\ Carries(result.msg, raised.message)

\* ============================================================ get_group_rules
\* the grants and permission entries get_group_rules is applied to
GrantValues == {Grant(g, c) : g \in {None, "sg-9"}, c \in {None, "10.0.0.0/8"}}
RuleHeaders == { <<"tcp", "22", "80">>, <<"udp", "53", "53">> }
RuleValues ==
    {Rule(h[1], h[2], h[3], gs) :
        h \in RuleHeaders, gs \in DistinctSeqsUpTo(GrantValues, MaxGrants)}

InitRules ==
    /\ pc = "get_group_rules"
    /\ PermissionList \in SeqsUpTo(RuleValues, MaxRules)
    /\ rules = None
    /\ calls = <<>> /\ result = NoResult /\ raised = NoError
    /\ ec2Idle /\ assocIdle /\ iamIdle

\* lines 214-234
GetGroupRules ==
    /\ pc = "get_group_rules"
    /\ rules' = get_group_rules(PermissionList)
    /\ pc' = "done"
    /\ UNCHANGED <<calls, result, raised, PermissionList, ec2Vars, assocVars, iamVars>>

NextRules == GetGroupRules

SpecRules == InitRules /\ [][NextRules]_vars

\* a grant that has a group identifier or a CIDR
HasValue(grant) == grant.group_id # None \/ grant.cidr_ip # None
\* how many of the first j grants have a value
Rank(grants, j) == Cardinality({k \in 1..j : HasValue(grants[k])})

\* C8: one rule record per permission entry, in the input order, with the
\* entry's protocol and ports; its grant strings are in the input grant order
\* and as many as the entry's grants that have a group identifier or a CIDR.
C8_OneRecordPerEntryInOrder ==
    pc = "done" =>
        /\ Len(rules) = Len(PermissionList)
        /\ \A i \in DOMAIN PermissionList :
             LET rule == PermissionList[i] IN
             /\ DOMAIN rules[i] = {"ip_protocol", "from_port", "to_port", "grants"}
             /\ rules[i].ip_protocol = rule.ip_protocol
             /\ rules[i].from_port = rule.from_port
             /\ rules[i].to_port = rule.to_port
             /\ Len(rules[i].grants) = Rank(rule.grants, Len(rule.grants))
             /\ \A j \in DOMAIN rule.grants :
                  HasValue(rule.grants[j]) =>
                     rules[i].grants[Rank(rule.grants, j)]
                        \in {rule.grants[j].group_id, rule.grants[j].cidr_ip}

C8_Witness ==
    /\ pc = "done"
    /\ Len(PermissionList) = 2
    /\ PermissionList[1].ip_protocol # PermissionList[2].ip_protocol
    /\ PermissionList[1].grants = <<Grant(None, None), Grant(None, "10.0.0.0/8")>>
    /\ PermissionList[2].grants = <<Grant(None, "10.0.0.0/8"), Grant("sg-9", None)>>
    /\ rules[1].grants = <<"10.0.0.0/8">>
    /\ rules[2].grants = <<"10.0.0.0/8", "sg-9">>

\* C9: every grant yields at most one string: its group identifier when it has
\* one, otherwise its CIDR; never both, also when the grant has both fields.
C9_GroupIdElseCidr ==
    pc = "done" =>
        \A i \in DOMAIN PermissionList :
            LET grants == PermissionList[i].grants IN
            /\ Len(rules[i].grants) <= Len(grants)
            /\ Len(rules[i].grants) = Rank(grants, Len(grants))
            /\ \A j \in DOMAIN grants :
                 HasValue(grants[j]) =>
                    rules[i].grants[Rank(grants, j)] =
                        IF grants[j].group_id # None THEN grants[j].group_id
                        ELSE grants[j].cidr_ip

C9_Witness ==
    /\ pc = "done"
    /\ Len(PermissionList) = 1
    /\ PermissionList[1].grants = <<Grant("sg-9", "10.0.0.0/8"), Grant(None, "10.0.0.0/8")>>
    /\ rules[1].grants = <<"sg-9", "10.0.0.0/8">>

\* ======================================= get_rds_instances / get_associated_loadbalancers
AssocGroupIds == {"sg-1", "sg-2"}
\* the membership lists of one database instance or load balancer
MemberSeqs == SeqsUpTo(AssocGroupIds, MaxMemberships)

RdsInventories ==
    UNION { { [i \in DOMAIN ids |->
                 [id |-> ids[i],
                  vpc_security_groups |->
                      [j \in DOMAIN m[i] |-> Membership(m[i][j])]]] :
              m \in [DOMAIN ids -> MemberSeqs] } :
            ids \in DistinctSeqsUpTo({"db-1", "db-2"}, MaxDbs) }

ElbInventories ==
    UNION { { [i \in DOMAIN names |->
                 [name |-> names[i], security_groups |-> m[i]]] :
              m \in [DOMAIN names -> MemberSeqs] } :
            names \in DistinctSeqsUpTo({"lb-1", "lb-2"}, MaxDbs) }

InitAssoc ==
    /\ pc = "get_rds_instances"
    /\ group \in {SecurityGroup(id) : id \in AssocGroupIds}
    /\ all_rds \in RdsInventories
    /\ all_elbs \in ElbInventories
    /\ rds_instances = None
    /\ associated_loadbalancers = None
    /\ calls = <<>> /\ result = NoResult /\ raised = NoError
    /\ ec2Idle /\ rulesIdle /\ iamIdle

\* lines 156-162
GetRdsInstances ==
    /\ pc = "get_rds_instances"
    /\ rds_instances' = get_rds_instances(all_rds, group)
    /\ pc' = "get_associated_loadbalancers"
    /\ UNCHANGED <<calls, result, raised, group, all_rds, all_elbs,
                   associated_loadbalancers, ec2Vars, rulesVars, iamVars>>

\* lines 194-199
GetAssociatedLoadbalancers ==
    /\ pc = "get_associated_loadbalancers"
    /\ associated_loadbalancers' = get_associated_loadbalancers(all_elbs, group)
    /\ pc' = "done"
    /\ UNCHANGED <<calls, result, raised, group, all_rds, all_elbs,
                   rds_instances, ec2Vars, rulesVars, iamVars>>

NextAssoc == GetRdsInstances \/ GetAssociatedLoadbalancers

SpecAssoc == InitAssoc /\ [][NextAssoc]_vars

\* the instances with at least one membership that references the group
ReferencingDbs ==
    LET Refers(db) == \E j \in DOMAIN db.vpc_security_groups :
                          db.vpc_security_groups[j].vpc_group = group.id
    IN  SelectSeq(all_rds, Refers)
\* the load balancers with the group in their security-group list
ReferencingElbs ==
    LET Refers(elb) == \E j \in DOMAIN elb.security_groups :
                          elb.security_groups[j] = group.id
    IN  SelectSeq(all_elbs, Refers)

\* C10: the rds sequence is exactly the instances, in inventory order, with at
\* least one membership referencing the group, each exactly once; and a load
\* balancer's name appears exactly once iff the group is in its list.
C10_EachAssociatedOnce ==
    pc = "done" =>
        /\ rds_instances = [i \in DOMAIN ReferencingDbs |-> ReferencingDbs[i].id]
        /\ associated_loadbalancers =
               [i \in DOMAIN ReferencingElbs |-> ReferencingElbs[i].name]

\* ============================================================ iam_user_facts
MaxItems == 1000

\* what the task may give for name and path (None: the argument is left out)
IamNames == {None, "", "bob", "al"}
IamPaths == {None, "", "/", "/dev/"}

\* Python truth of a string-or-None value
Truthy(v) == v # None /\ v # ""

\* the argument_spec of main: path=dict(default='/'), name without default;
\* a mutant that declares no default for path comes first
ApplyDefaults_NoPathDefault(a) == [name |-> a.name, path |-> a.path]

ApplyDefaults(a) ==
    [name |-> a.name, path |-> IF a.path = None THEN "/" ELSE a.path]

\* the users of the account, and what a provider call may raise
Users == [UserName : {"bob", "al"}, Path : {"/", "/dev/"}]
NoUser == [UserName |-> None, Path |-> None]
ClientErrors ==
    { [message  |-> "An error occurred (NoSuchEntity)",
       response |-> [Error |-> [Code |-> "NoSuchEntity", Message |-> "no such user"]]],
      [message  |-> "An error occurred (AccessDenied)",
       response |-> [Error |-> [Code |-> "AccessDenied", Message |-> "not allowed"]]] }

\* camel_dict_to_snake_dict of a user and of an error response
SnakeUser(u) == [user_name |-> u.UserName, path |-> u.Path]
SnakeUsers(us) == [i \in DOMAIN us |-> SnakeUser(us[i])]
SnakeResponse(r) == [error |-> [code |-> r.Error.Code, message |-> r.Error.Message]]

\* module.fail_json(msg=e.message, **camel_dict_to_snake_dict(e.response))
fail_json_kw(msg, kw) == [kind |-> "fail_json", msg |-> msg, payload |-> kw]

\* `if name and not path`
GetBranch(p) == Truthy(p.name) /\ ~Truthy(p.path)

\* params after line 105
ParamsAfterName(p) ==
    IF GetBranch(p) THEN "UserName" :> p.name ELSE <<>>
\* params after lines 111-113
ParamsAfterPath(kw, p) ==
    IF Truthy(p.path) THEN kw @@ ("MaxItems" :> MaxItems) @@ ("PathPrefix" :> p.path)
    ELSE kw

IamCall(op, kw) == [op |-> op, kw |-> kw]

\* the listings list_users may return for its arguments: users under the path
\* prefix ("/" when none is passed), each name once
PrefixOf(kw) == IF "PathPrefix" \in DOMAIN kw THEN kw["PathPrefix"] ELSE "/"
UnderPrefix(u, prefix) == prefix = "/" \/ u.Path = prefix
ListingsFor(kw) ==
    {l \in SeqsUpTo(Users, MaxUsers) :
        /\ \A i, j \in DOMAIN l : l[i].UserName = l[j].UserName => i = j
        /\ \A i \in DOMAIN l : UnderPrefix(l[i], PrefixOf(kw))}

\* line 115 keeps what get_user appended
AfterList_Extend(before, users) == before \o users
\* line 115: iam_users = connection.list_users(**params)['Users']
AfterList(before, users) == users

\* lines 118-119
FilterByName(users, p) ==
    IF Truthy(p.name)
    THEN LET Named(user) == user.UserName = p.name IN SelectSeq(users, Named)
    ELSE users

InitIam ==
    /\ pc = "main"
    /\ args \in [name : IamNames, path : IamPaths]
    /\ params = None
    /\ got = NoUser
    /\ listing = <<>>
    /\ iam_users = <<>>
    /\ calls = <<>> /\ result = NoResult /\ raised = NoError
    /\ ec2Idle /\ rulesIdle /\ assocIdle

\* main, lines 124-143, from the point where boto3 is importable and the
\* connection is made: AnsibleModule applies the defaults, list_iam_users runs
IamMain ==
    /\ pc = "main"
    /\ params' = ApplyDefaults(args)
    /\ pc' = "get_user"
    /\ UNCHANGED <<calls, result, raised, args, got, listing, iam_users,
                   ec2Vars, rulesVars, assocVars>>

\* list_iam_users, lines 98-109
GetUserStep ==
    /\ pc = "get_user"
    /\ \/ /\ GetBranch(params)
          /\ calls' = Append(calls, IamCall("get_user", ParamsAfterName(params)))
          /\ \E u \in Users :
               /\ u.UserName = params.name
               /\ got' = u
               /\ iam_users' = Append(iam_users, u)
          /\ pc' = "list_users"
          /\ UNCHANGED <<result, raised>>
       \/ /\ GetBranch(params)
          /\ calls' = Append(calls, IamCall("get_user", ParamsAfterName(params)))
          /\ \E e \in ClientErrors :
               /\ raised' = e
               /\ result' = fail_json_kw(Text(e.message), SnakeResponse(e.response))
          /\ pc' = "done"
          /\ UNCHANGED <<got, iam_users>>
       \/ /\ ~GetBranch(params)
          /\ pc' = "list_users"
          /\ UNCHANGED <<calls, result, raised, got, iam_users>>
    /\ UNCHANGED <<args, params, listing, ec2Vars, rulesVars, assocVars>>

\* list_iam_users, lines 111-121
ListUsersStep ==
    /\ pc = "list_users"
    /\ LET kw == ParamsAfterPath(ParamsAfterName(params), params) IN
       /\ calls' = Append(calls, IamCall("list_users", kw))
       /\ \/ \E l \in ListingsFor(kw) :
               LET users == FilterByName(AfterList(iam_users, l), params) IN
               /\ listing' = l
               /\ iam_users' = users
               /\ result' = exit_json([iam_users |-> SnakeUsers(users)])
               /\ raised' = raised
          \/ \E e \in ClientErrors :
               /\ raised' = e
               /\ result' = fail_json_kw(Text(e.message), SnakeResponse(e.response))
               /\ UNCHANGED <<listing, iam_users>>
    /\ pc' = "done"
    /\ UNCHANGED <<args, params, got, ec2Vars, rulesVars, assocVars>>

NextIam == IamMain \/ GetUserStep \/ ListUsersStep

SpecIam == InitIam /\ [][NextIam]_vars

\* the users of the listing whose name is exactly n
ExactlyNamed(l, n) == LET Named(user) == user.UserName = n IN SelectSeq(l, Named)
IssuedOps == [i \in DOMAIN calls |-> calls[i].op]

\* C5: with a name and no path argument the run lists the users under "/" and
\* returns the one whose name is exactly the given name, or nothing when none
\* is listed; no get-by-name call takes part, so its outcome cannot matter.
C5_NameOnlyIsExactMatchOfListing ==
    (pc = "done" /\ Truthy(args.name) /\ args.path = None) =>
        /\ \A i \in DOMAIN calls : calls[i].op # "get_user"
        /\ got = NoUser
        /\ Len(calls) = 1
        /\ calls[1].op = "list_users"
        /\ "PathPrefix" \in DOMAIN calls[1].kw
        /\ calls[1].kw["PathPrefix"] = "/"
        /\ (raised = NoError =>
              /\ result = exit_json([iam_users |->
                                SnakeUsers(ExactlyNamed(listing, args.name))])
              /\ Len(result.payload.iam_users) <= 1)

C5_Witness ==
    /\ pc = "done" /\ args.name = "bob" /\ args.path = None
    /\ Len(listing) = 2
    /\ result.kind = "exit_json"
    /\ result.payload.iam_users = <<[user_name |-> "bob", path |-> "/dev/"]>>

====
